---- MODULE Spec2Model ----
(***************************************************************************)
(* A model of process_subscriptions.py: the v2ray subscription processor.  *)
(*                                                                         *)
(* Text is modelled as Python models it: a str is a sequence of Unicode    *)
(* code points and a bytes object a sequence of integers in 0..255.  The   *)
(* string operations the script uses (strip, split, startswith, sorted,    *)
(* base64.b64decode / b64encode, bytes.decode('utf-8')) are operators      *)
(* that compute what CPython computes.                                     *)
(***************************************************************************)
EXTENDS Integers, Sequences, FiniteSets, TLC

(***************************************************************************)
(* str helpers                                                             *)
(***************************************************************************)

\* The code points str.strip() removes (those with str.isspace() true).
IsSpace(c) ==
    \/ c \in 9..13
    \/ c \in 28..32
    \/ c \in {133, 160, 5760, 8232, 8233, 8239, 8287, 12288}
    \/ c \in 8192..8202

RECURSIVE LStrip(_)
LStrip(s) ==
    IF s # <<>> /\ IsSpace(Head(s)) THEN LStrip(Tail(s)) ELSE s

RECURSIVE RStrip(_)
RStrip(s) ==
    IF s # <<>> /\ IsSpace(s[Len(s)]) THEN RStrip(SubSeq(s, 1, Len(s) - 1)) ELSE s

\* str.strip()
Strip(s) == RStrip(LStrip(s))

\* str.split(sep) for a one-character separator: empty pieces are kept.
RECURSIVE SplitFrom(_, _, _, _)
SplitFrom(s, sep, i, cur) ==
    IF i > Len(s) THEN <<cur>>
    ELSE IF s[i] = sep THEN <<cur>> \o SplitFrom(s, sep, i + 1, <<>>)
         ELSE SplitFrom(s, sep, i + 1, Append(cur, s[i]))

Split(s, sep) == SplitFrom(s, sep, 1, <<>>)

\* str.startswith(prefix)
StartsWith(s, prefix) ==
    /\ Len(s) >= Len(prefix)
    /\ SubSeq(s, 1, Len(prefix)) = prefix

\* [x.strip() for x in pieces if x.strip()]
RECURSIVE StripNonEmpty(_)
StripNonEmpty(pieces) ==
    IF pieces = <<>> THEN <<>>
    ELSE LET x == Strip(Head(pieces))
         IN  (IF x # <<>> THEN <<x>> ELSE <<>>) \o StripNonEmpty(Tail(pieces))

\* The order of str under <: lexicographic by code point.
RECURSIVE StrLess(_, _)
StrLess(a, b) ==
    IF a = <<>> THEN b # <<>>
    ELSE IF b = <<>> THEN FALSE
    ELSE IF Head(a) # Head(b) THEN Head(a) < Head(b)
    ELSE StrLess(Tail(a), Tail(b))

\* sorted(configs) for a set of str
RECURSIVE Sorted(_)
Sorted(S) ==
    IF S = {} THEN <<>>
    ELSE LET m == CHOOSE x \in S : \A y \in S \ {x} : StrLess(x, y)
         IN  <<m>> \o Sorted(S \ {m})

(***************************************************************************)
(* base64 and UTF-8, as the standard library computes them                 *)
(***************************************************************************)

Ok(v) == [ok |-> TRUE, val |-> v]
Raised == [ok |-> FALSE, val |-> <<>>]

\* The value of a character of the base64 alphabet, -1 for any other.
B64Value(c) ==
    IF c \in 65..90 THEN c - 65
    ELSE IF c \in 97..122 THEN c - 97 + 26
    ELSE IF c \in 48..57 THEN c - 48 + 52
    ELSE IF c = 43 THEN 62
    ELSE IF c = 47 THEN 63
    ELSE -1

\* The character of a 6-bit value.
B64Char(v) ==
    IF v < 26 THEN 65 + v
    ELSE IF v < 52 THEN 97 + v - 26
    ELSE IF v < 62 THEN 48 + v - 52
    ELSE IF v = 62 THEN 43
    ELSE 47

\* binascii.a2b_base64 without strict mode: characters outside the alphabet
\* are skipped, a complete pad sequence ends the data, and a quad left
\* incomplete at the end raises binascii.Error.
RECURSIVE A2bBase64(_, _, _, _, _, _)
A2bBase64(text, i, quad, left, pads, out) ==
    IF i > Len(text) THEN (IF quad # 0 THEN Raised ELSE Ok(out))
    ELSE LET c == text[i]
             v == B64Value(c)
         IN  IF c = 61
             THEN IF quad >= 2 /\ quad + pads + 1 >= 4
                  THEN Ok(out)
                  ELSE A2bBase64(text, i + 1, quad, left,
                                 IF quad >= 2 THEN pads + 1 ELSE pads, out)
             ELSE IF v < 0 THEN A2bBase64(text, i + 1, quad, left, pads, out)
             ELSE IF quad = 0 THEN A2bBase64(text, i + 1, 1, v, 0, out)
             ELSE IF quad = 1
                  THEN A2bBase64(text, i + 1, 2, v % 16, 0,
                                 Append(out, left * 4 + v \div 16))
             ELSE IF quad = 2
                  THEN A2bBase64(text, i + 1, 3, v % 4, 0,
                                 Append(out, left * 16 + v \div 4))
             ELSE A2bBase64(text, i + 1, 0, 0, 0, Append(out, left * 64 + v))

\* base64.b64decode(text) for a str: a non-ASCII character raises ValueError.
B64Decode(text) ==
    IF \E i \in 1..Len(text) : text[i] > 127 THEN Raised
    ELSE A2bBase64(text, 1, 0, 0, 0, <<>>)

\* base64.b64encode(data).decode('utf-8')
RECURSIVE B64Encode(_)
B64Encode(data) ==
    IF data = <<>> THEN <<>>
    ELSE IF Len(data) = 1
         THEN <<B64Char(data[1] \div 4), B64Char((data[1] % 4) * 16), 61, 61>>
    ELSE IF Len(data) = 2
         THEN <<B64Char(data[1] \div 4),
                B64Char((data[1] % 4) * 16 + data[2] \div 16),
                B64Char((data[2] % 16) * 4), 61>>
    ELSE <<B64Char(data[1] \div 4),
           B64Char((data[1] % 4) * 16 + data[2] \div 16),
           B64Char((data[2] % 16) * 4 + data[3] \div 64),
           B64Char(data[3] % 64)>> \o B64Encode(SubSeq(data, 4, Len(data)))

IsCont(data, i) == i <= Len(data) /\ data[i] \in 128..191

\* bytes.decode('utf-8'): strict decoding; an invalid start byte, a missing or
\* bad continuation byte, an overlong form, a surrogate or a code point above
\* U+10FFFF raises UnicodeDecodeError.
RECURSIVE Utf8From(_, _, _)
Utf8From(data, i, out) ==
    IF i > Len(data) THEN Ok(out)
    ELSE LET b == data[i]
         IN  IF b < 128 THEN Utf8From(data, i + 1, Append(out, b))
             ELSE IF b \in 194..223
                  THEN IF IsCont(data, i + 1)
                       THEN Utf8From(data, i + 2,
                                Append(out, (b - 192) * 64 + (data[i + 1] - 128)))
                       ELSE Raised
             ELSE IF b \in 224..239
                  THEN IF /\ IsCont(data, i + 1)
                          /\ IsCont(data, i + 2)
                          /\ (b = 224 => data[i + 1] >= 160)
                          /\ (b = 237 => data[i + 1] <= 159)
                       THEN Utf8From(data, i + 3,
                                Append(out, (b - 224) * 4096
                                            + (data[i + 1] - 128) * 64
                                            + (data[i + 2] - 128)))
                       ELSE Raised
             ELSE IF b \in 240..244
                  THEN IF /\ IsCont(data, i + 1)
                          /\ IsCont(data, i + 2)
                          /\ IsCont(data, i + 3)
                          /\ (b = 240 => data[i + 1] >= 144)
                          /\ (b = 244 => data[i + 1] <= 143)
                       THEN Utf8From(data, i + 4,
                                Append(out, (b - 240) * 262144
                                            + (data[i + 1] - 128) * 4096
                                            + (data[i + 2] - 128) * 64
                                            + (data[i + 3] - 128)))
                       ELSE Raised
             ELSE Raised

Utf8Decode(data) == Utf8From(data, 1, <<>>)

(***************************************************************************)
(* The script's functions                                                  *)
(***************************************************************************)

\* The prefixes of line 104: 'vmess://', 'vless://', 'ss://', 'trojan://',
\* 'hysteria2://'.
SchemePrefixes ==
    { <<118, 109, 101, 115, 115, 58, 47, 47>>,
      <<118, 108, 101, 115, 115, 58, 47, 47>>,
      <<115, 115, 58, 47, 47>>,
      <<116, 114, 111, 106, 97, 110, 58, 47, 47>>,
      <<104, 121, 115, 116, 101, 114, 105, 97, 50, 58, 47, 47>> }

\* is_base64_encoded with the empty string refused.
IsBase64EncodedNonEmpty(text) ==
    LET decoded == B64Decode(text)
    IN  text # <<>> /\ decoded.ok /\ B64Encode(decoded.val) = text

\* is_base64_encoded(text): decodes, re-encodes and compares; any exception
\* gives False.
IsBase64Encoded(text) ==
    LET decoded == B64Decode(text)
    IN  decoded.ok /\ B64Encode(decoded.val) = text

\* decode_base64_configs(content): the stripped non-empty lines of the decoded
\* text, or [] when decoding raises.
DecodeBase64Configs(content) ==
    LET decoded == B64Decode(content)
    IN  IF ~decoded.ok THEN <<>>
        ELSE LET str == Utf8Decode(decoded.val)
             IN  IF ~str.ok THEN <<>>
                 ELSE StripNonEmpty(Split(str.val, 10))

\* The branch line 59 takes for a content.
Encoding(content) ==
    IF IsBase64Encoded(Strip(content)) THEN "base64" ELSE "raw"

\* extract_configs_from_content(content)
ExtractConfigsFromContent(content) ==
    IF Encoding(content) = "base64"
    THEN DecodeBase64Configs(content)
    ELSE StripNonEmpty(Split(content, 10))

\* The test of line 104 with the scheme compared in lower case.
LowerCase(s) == [k \in DOMAIN s |-> IF s[k] \in 65..90 THEN s[k] + 32 ELSE s[k]]
HasSchemeAnyCase(config) ==
    /\ config # <<>>
    /\ \E p \in SchemePrefixes : StartsWith(LowerCase(config), p)

\* The test of line 104: config and config.startswith((...)).
HasScheme(config) ==
    /\ config # <<>>
    /\ \E p \in SchemePrefixes : StartsWith(config, p)

\* The loop of lines 103-105 with the set rebuilt from the last body alone.
AddConfigsReplacing(all, configs) ==
    {configs[k] : k \in {j \in DOMAIN configs : HasScheme(configs[j])}}

\* The loop of lines 103-105: all_configs.add(config) for the configs that
\* pass the test.
AddConfigs(all, configs) ==
    all \cup {configs[k] : k \in {j \in DOMAIN configs : HasScheme(configs[j])}}

\* Lines 78-87: the URLs of the subscription file's text.
RECURSIVE UrlsOfLines(_)
UrlsOfLines(lines) ==
    IF lines = <<>> THEN <<>>
    ELSE LET line == Strip(Head(lines))
         IN  (IF line # <<>> THEN StripNonEmpty(Split(line, 44)) ELSE <<>>)
             \o UrlsOfLines(Tail(lines))

ParseUrls(text) == UrlsOfLines(Split(Strip(text), 10))

\* fetch_subscription_content with every exception caught.
FetchCatchingAll(outcome) ==
    IF outcome.kind = "body" THEN Ok(outcome.text) ELSE Ok(<<>>)

\* fetch_subscription_content(url) for what the request did: the body of a
\* successful response is returned; a requests.exceptions.RequestException
\* (a connection error, a timeout, the HTTPError raise_for_status() raises
\* for a non-success status) is caught and "" returned; any other exception
\* is not caught here.
FetchSubscriptionContent(outcome) ==
    IF outcome.kind = "body" THEN Ok(outcome.text)
    ELSE IF outcome.kind \in {"http_error", "timeout"} THEN Ok(<<>>)
    ELSE Raised

\* The text write_sum_file writes for a sequence of lines: config + '\n' each.
RECURSIVE JoinLines(_)
JoinLines(lines) ==
    IF lines = <<>> THEN <<>>
    ELSE Head(lines) \o <<10>> \o JoinLines(Tail(lines))

\* write_sum_file(configs, output_file) on a file, for what the file system
\* did: open(..., 'w') raising leaves the file as it was; otherwise the file
\* is truncated and holds the lines written before an error, if any.
WriteSumFile(configs, file, w) ==
    IF w.kind = "open_error" THEN file
    ELSE IF w.kind = "ok"
         THEN [exists |-> TRUE, text |-> JoinLines(Sorted(configs))]
    ELSE [exists |-> TRUE, text |-> JoinLines(SubSeq(Sorted(configs), 1, w.k))]

\* main without the test of line 138.
MainWritesAlways(configs) == TRUE

\* The test of line 138: if all_configs.
MainWrites(configs) == configs # {}

\* The loop body with the pause skipped after a failed fetch.
AfterProcessSkippingPause(content) ==
    IF content = <<>> THEN "loop" ELSE "sleep"

\* Where the loop body goes after lines 97-107: the time.sleep(1) of line 110,
\* whatever the fetch returned.
AfterProcess(content) == "sleep"

(***************************************************************************)
(* The environment of a run: subs.txt, the network, sum.txt                *)
(***************************************************************************)

\* The longest URL list of the subscription files considered.
MaxUrls == 3

\* The number of runs of the script considered, one after the other.
MaxRuns == 2

\* 'http://a' and 'http://b'
UrlA == <<104, 116, 116, 112, 58, 47, 47, 97>>
UrlB == <<104, 116, 116, 112, 58, 47, 47, 98>>
Urls == {UrlA, UrlB}

\* Texts of subs.txt:
\*   'http://a,http://b'               'http://b\nhttp://a\n'
\*   'http://a, http://b ,http://a'    'http://a,http://a\nhttp://b'
\*   'http://a\n'                      ' \n'
\*   'http://a,http://b\nhttp://b,http://a'
\*   'http://b,http://b,http://a,http://a'
SubTexts ==
    { <<104, 116, 116, 112, 58, 47, 47, 97, 44,
        104, 116, 116, 112, 58, 47, 47, 98>>,
      <<104, 116, 116, 112, 58, 47, 47, 98, 10,
        104, 116, 116, 112, 58, 47, 47, 97, 10>>,
      <<104, 116, 116, 112, 58, 47, 47, 97, 44, 32,
        104, 116, 116, 112, 58, 47, 47, 98, 32, 44,
        104, 116, 116, 112, 58, 47, 47, 97>>,
      <<104, 116, 116, 112, 58, 47, 47, 97, 44,
        104, 116, 116, 112, 58, 47, 47, 97, 10,
        104, 116, 116, 112, 58, 47, 47, 98>>,
      <<104, 116, 116, 112, 58, 47, 47, 97, 10>>,
      <<32, 10>>,
      <<104, 116, 116, 112, 58, 47, 47, 97, 44,
        104, 116, 116, 112, 58, 47, 47, 98, 10,
        104, 116, 116, 112, 58, 47, 47, 98, 44,
        104, 116, 116, 112, 58, 47, 47, 97>>,
      <<104, 116, 116, 112, 58, 47, 47, 98, 44,
        104, 116, 116, 112, 58, 47, 47, 98, 44,
        104, 116, 116, 112, 58, 47, 47, 97, 44,
        104, 116, 116, 112, 58, 47, 47, 97>> }

\* subs.txt: missing (line 71), present but raising on open or read (caught
\* at line 112), or readable with a text of at most MaxUrls URLs.
SubFiles ==
    { [kind |-> "missing", text |-> <<>>],
      [kind |-> "unreadable", text |-> <<>>] }
    \cup { [kind |-> "text", text |-> t] :
             t \in {x \in SubTexts : Len(ParseUrls(x)) <= MaxUrls} }

\* Response bodies:
\*   'vless://x\nfoo\nVMESS://u\nvmess:/w\n vmess://y \n'         (raw)
\*   'dm1lc3M6Ly95CnNzOi8vego=', base64 of 'vmess://y\nss://z\n'
\*   ' \n'                         (empty once stripped)
\*   ''                            (empty)
\*   '//4=', base64 of the bytes FF FE, which are not UTF-8
Bodies ==
    { <<118, 108, 101, 115, 115, 58, 47, 47, 120, 10, 102, 111, 111, 10,
        86, 77, 69, 83, 83, 58, 47, 47, 117, 10,
        118, 109, 101, 115, 115, 58, 47, 119, 10,
        32, 118, 109, 101, 115, 115, 58, 47, 47, 121, 32, 10>>,
      <<100, 109, 49, 108, 99, 51, 77, 54, 76, 121, 57, 53, 67, 110, 78, 122,
        79, 105, 56, 118, 101, 103, 111, 61>>,
      <<32, 10>>,
      <<>>,
      <<47, 47, 52, 61>> }

\* What requests.get / raise_for_status / response.text do for a URL: a body,
\* a non-success status, a timeout (both RequestExceptions), or an exception
\* that is not a RequestException.
Outcomes ==
    { [kind |-> "body", text |-> b] : b \in Bodies }
    \cup { [kind |-> k, text |-> <<>>] : k \in {"http_error", "timeout", "error"} }

\* sum.txt before the first run: absent, or holding 'ss://old\n'.
NoFile == [exists |-> FALSE, text |-> <<>>]
OutFiles ==
    { NoFile,
      [exists |-> TRUE, text |-> <<115, 115, 58, 47, 47, 111, 108, 100, 10>>] }

\* What open(output_file, 'w') and file.write do during write_sum_file: all
\* goes well, open raises, a write raises after k lines, or the run is
\* interrupted after k lines.
WriteOutcomes(configs) ==
    { [kind |-> "ok", k |-> Cardinality(configs)],
      [kind |-> "open_error", k |-> 0] }
    \cup { [kind |-> kd, k |-> n] :
             kd \in {"write_error", "interrupt"},
             n \in 0..(Cardinality(configs) - 1) }

\* Two subscription files list the same URLs, each as often, in some order.
SameUrls(f, g) ==
    /\ f.kind = g.kind
    /\ LET a == ParseUrls(f.text)
           b == ParseUrls(g.text)
       IN  \A u \in Urls :
             Cardinality({k \in DOMAIN a : a[k] = u})
               = Cardinality({k \in DOMAIN b : b[k] = u})

(***************************************************************************)
(* The state of a run                                                      *)
(***************************************************************************)

VARIABLES
    subFile,      \* subs.txt
    net,          \* what fetching each URL does
    outFile,      \* sum.txt
    outFile0,     \* sum.txt when the run started
    run,          \* the number of the run
    prev,         \* how the previous run ended
    pc,           \* where the run is
    urls,         \* urls (line 81)
    i,            \* the number of URLs taken by the loop of line 91
    content,      \* content (line 95)
    encoding,     \* what is_base64_encoded said of the last body (line 59)
    found,        \* len(configs) (line 100)
    all_configs,  \* all_configs (line 69)
    log,          \* the fetches, foldings and pauses of the run, in order
    raised,       \* the exception that ended the loop, if any
    wrote,        \* how write_sum_file went, if called
    status        \* the exit status of the process

vars ==
    <<subFile, net, outFile, outFile0, run, prev, pc, urls, i, content,
      encoding, found, all_configs, log, raised, wrote, status>>

NoPrev == [file |-> NoFile, status |-> "none", raised |-> "none", wrote |-> "none"]

\* The state of a process that has just started (lines 127-136, 69).
Fresh ==
    /\ pc = "start"
    /\ urls = <<>>
    /\ i = 0
    /\ content = <<>>
    /\ encoding = "none"
    /\ found = 0
    /\ all_configs = {}
    /\ log = <<>>
    /\ raised = "none"
    /\ wrote = "none"
    /\ status = "running"

Init ==
    /\ subFile \in SubFiles
    /\ net \in [Urls -> Outcomes]
    /\ outFile \in OutFiles
    /\ outFile0 = outFile
    /\ run = 1
    /\ prev = NoPrev
    /\ Fresh

env == <<subFile, net, outFile0, run, prev>>

\* Lines 71-89: the file is missing (return at line 73), cannot be read
\* (except at line 112), or is read and split into URLs.
ReadSubFile ==
    /\ pc = "start"
    /\ IF subFile.kind = "missing"
       THEN /\ pc' = "returned"
            /\ UNCHANGED <<urls, raised>>
       ELSE IF subFile.kind = "unreadable"
       THEN /\ pc' = "returned"
            /\ raised' = "exception"
            /\ UNCHANGED urls
       ELSE /\ urls' = ParseUrls(subFile.text)
            /\ pc' = "loop"
            /\ UNCHANGED raised
    /\ UNCHANGED <<env, outFile, i, content, encoding, found, all_configs,
                   log, wrote, status>>

\* Lines 91-95: the loop takes the next URL and fetches it.  An exception
\* fetch_subscription_content lets through is caught at line 112, which ends
\* the loop.
Fetch ==
    /\ pc = "loop"
    /\ i < Len(urls)
    /\ i' = i + 1
    /\ LET r == FetchSubscriptionContent(net[urls[i + 1]])
       IN  IF r.ok
           THEN /\ content' = r.val
                /\ pc' = "process"
                /\ UNCHANGED raised
           ELSE /\ pc' = "returned"
                /\ raised' = "exception"
                /\ UNCHANGED content
    /\ log' = Append(log, <<"fetch", i + 1>>)
    /\ UNCHANGED <<env, outFile, urls, encoding, found, all_configs, wrote,
                   status>>

\* Lines 97-107: a non-empty content is split into configs, and those with a
\* recognized scheme are added to all_configs.
Process ==
    /\ pc = "process"
    /\ IF content # <<>>
       THEN LET configs == ExtractConfigsFromContent(content)
            IN  /\ encoding' = IF IsBase64Encoded(Strip(content))
                               THEN "base64" ELSE "raw"
                /\ found' = Len(configs)
                /\ all_configs' = AddConfigs(all_configs, configs)
       ELSE /\ encoding' = "none"
            /\ found' = 0
            /\ UNCHANGED all_configs
    /\ pc' = AfterProcess(content)
    /\ log' = Append(log, <<"fold", i>>)
    /\ UNCHANGED <<env, outFile, urls, i, content, wrote, raised, status>>

\* Line 110: time.sleep(1), then back to line 91.
Sleep ==
    /\ pc = "sleep"
    /\ pc' = "loop"
    /\ log' = Append(log, <<"pause", i>>)
    /\ UNCHANGED <<env, outFile, urls, i, content, encoding, found,
                   all_configs, wrote, raised, status>>

\* Lines 91, 115: the URLs are exhausted; all_configs is returned.
LoopEnd ==
    /\ pc = "loop"
    /\ i = Len(urls)
    /\ pc' = "returned"
    /\ UNCHANGED <<env, outFile, urls, i, content, encoding, found,
                   all_configs, log, wrote, raised, status>>

\* Lines 136-144: main writes a non-empty all_configs and falls off its end
\* (exit status 0, also when write_sum_file caught an error), or calls
\* sys.exit(1).
Main ==
    /\ pc = "returned"
    /\ pc' = "done"
    /\ IF MainWrites(all_configs)
       THEN \E w \in WriteOutcomes(all_configs) :
              /\ outFile' = WriteSumFile(all_configs, outFile, w)
              /\ wrote' = w.kind
              /\ IF w.kind = "interrupt"
                 THEN raised' = "interrupt" /\ status' = "interrupted"
                 ELSE status' = "success" /\ UNCHANGED raised
       ELSE /\ status' = "failure"
            /\ UNCHANGED <<outFile, wrote, raised>>
    /\ UNCHANGED <<env, urls, i, content, encoding, found, all_configs, log>>

\* A KeyboardInterrupt before write_sum_file is called: it is no Exception,
\* so neither line 112 nor anything else catches it and the process dies.
Interrupt ==
    /\ pc \in {"start", "loop", "process", "sleep", "returned"}
    /\ pc' = "done"
    /\ raised' = "interrupt"
    /\ status' = "interrupted"
    /\ UNCHANGED <<env, outFile, urls, i, content, encoding, found,
                   all_configs, log, wrote>>

\* The script is run again, on a subs.txt listing the same URLs in some
\* order; the network answers as before and sum.txt is as the last run
\* left it.
Restart ==
    /\ pc = "done"
    /\ run < MaxRuns
    /\ run' = run + 1
    /\ prev' = [file |-> outFile, status |-> status, raised |-> raised,
                wrote |-> wrote]
    /\ subFile' \in {f \in SubFiles : SameUrls(f, subFile)}
    /\ outFile0' = outFile
    /\ pc' = "start"
    /\ urls' = <<>>
    /\ i' = 0
    /\ content' = <<>>
    /\ encoding' = "none"
    /\ found' = 0
    /\ all_configs' = {}
    /\ log' = <<>>
    /\ raised' = "none"
    /\ wrote' = "none"
    /\ status' = "running"
    /\ UNCHANGED <<net, outFile>>

Next ==
    \/ ReadSubFile
    \/ Fetch
    \/ Process
    \/ Sleep
    \/ LoopEnd
    \/ Main
    \/ Interrupt
    \/ Restart

Spec == Init /\ [][Next]_vars

(***************************************************************************)
(* Properties                                                              *)
(***************************************************************************)

Events == {log[k] : k \in DOMAIN log}

\* The loop has fetched every URL of the list.
AllFetched == \A n \in 1..Len(urls) : <<"fetch", n>> \in Events

\* The loop has processed every URL of the list.
AllProcessed == \A n \in 1..Len(urls) : <<"fold", n>> \in Events

\* A string starts with one of the five recognized prefixes, compared as
\* written.
Recognized(c) == \E p \in SchemePrefixes : StartsWith(c, p)

\* The entries a file holds, one per line, when its text is well formed.
FileEntries(file) ==
    LET pieces == Split(file.text, 10)
    IN  {pieces[k] : k \in 1..(Len(pieces) - 1)}

\* A file holds exactly the entries of a set, one per line.
FileHolds(file, configs) ==
    LET pieces == Split(file.text, 10)
    IN  /\ file.exists
        /\ pieces[Len(pieces)] = <<>>
        /\ Len(pieces) - 1 = Cardinality(configs)
        /\ FileEntries(file) = configs

\* 'vless://x', 'vmess://y', 'ss://z', 'VMESS://u', 'vmess:/w'
EntryX == <<118, 108, 101, 115, 115, 58, 47, 47, 120>>
EntryY == <<118, 109, 101, 115, 115, 58, 47, 47, 121>>
EntryZ == <<115, 115, 58, 47, 47, 122>>
EntryUpper == <<86, 77, 69, 83, 83, 58, 47, 47, 117>>
EntryOneSlash == <<118, 109, 101, 115, 115, 58, 47, 119>>

\* C1: a failure while processing one URL never ends the loop: when
\* process_subscription_file returns from a readable subs.txt, every URL of
\* the list has been fetched.
C1_FailureNeverEndsLoop ==
    (pc = "returned" /\ subFile.kind = "text") => AllFetched

\* C2: sum.txt is written only after every URL of the list has been
\* processed, and a run interrupted before the last URL is processed leaves
\* sum.txt as it was.
C2_WriteOnlyAfterAllUrls ==
    /\ wrote \in {"ok", "write_error", "interrupt"} => AllProcessed
    /\ (status = "interrupted" /\ ~AllProcessed) =>
         (wrote = "none" /\ outFile = outFile0)

\* C3: a run that ends with an empty aggregate exits with failure status and
\* has neither written nor overwritten sum.txt.
C3_EmptyAggregateFails ==
    (pc = "done" /\ raised # "interrupt" /\ all_configs = {}) =>
        (status = "failure" /\ wrote = "none" /\ outFile = outFile0)

\* C3's case: both URLs of a list were attempted, nothing was gathered, and
\* the sum.txt of before the run is still there.
C3_Witness ==
    /\ pc = "done"
    /\ Len(urls) >= 2
    /\ AllFetched
    /\ i = Len(urls)
    /\ all_configs = {}
    /\ status = "failure"
    /\ outFile0.exists
    /\ outFile = outFile0

\* C4: a run exits with success only with sum.txt holding exactly the
\* entries of the aggregate, and a run that is not interrupted exits with
\* failure exactly when the aggregate is empty.
C4_SuccessMeansWritten ==
    /\ (pc = "done" /\ status = "success") => FileHolds(outFile, all_configs)
    /\ (pc = "done" /\ raised # "interrupt") =>
         (status = "failure" <=> all_configs = {})

\* C5: two runs on subscription files that list the same URLs in different
\* orders, with the same fetch outcome per URL, neither interrupted nor
\* hit by a write error, end with the same sum.txt and the same exit status.
C5_OrderIndependent ==
    ( /\ run >= 2
      /\ pc = "done"
      /\ raised # "interrupt"
      /\ prev.raised # "interrupt"
      /\ wrote \in {"none", "ok"}
      /\ prev.wrote \in {"none", "ok"} ) =>
        (outFile = prev.file /\ status = prev.status)

\* C6: the aggregate is empty when a run starts, every step of a run leaves
\* it a superset of what it was, and folding in entries it already holds
\* leaves it unchanged.
C6_AggregateMonotonic ==
    /\ [](pc = "start" => all_configs = {})
    /\ [][run' = run => all_configs \subseteq all_configs']_vars
    /\ [][ ( /\ pc = "process"
             /\ pc' # "done"
             /\ content # <<>>
             /\ LET cands == ExtractConfigsFromContent(content)
                IN  \A k \in DOMAIN cands :
                      Recognized(cands[k]) => cands[k] \in all_configs )
           => all_configs' = all_configs ]_vars

\* C6's case: the second source repeated an entry of the first ('vmess://y')
\* and brought a new one: the aggregate holds three entries, not four.
C6_Witness ==
    /\ pc = "sleep"
    /\ i = 2
    /\ found = 2
    /\ all_configs = {EntryX, EntryY, EntryZ}

\* C7: a candidate of a processed body is in the aggregate after the step
\* if and only if it starts with one of the five prefixes as written (or was
\* there before); so every member of the aggregate starts with one of them,
\* and 'VMESS://u' and 'vmess:/w' are never members.
C7_FilterExact ==
    /\ [](\A c \in all_configs : Recognized(c))
    /\ [](EntryUpper \notin all_configs /\ EntryOneSlash \notin all_configs)
    /\ [][ (pc = "process" /\ pc' # "done" /\ content # <<>>) =>
             LET cands == ExtractConfigsFromContent(content)
             IN  \A k \in DOMAIN cands :
                   cands[k] \in all_configs'
                     <=> (Recognized(cands[k]) \/ cands[k] \in all_configs) ]_vars

\* C7's case: the raw body with five candidates was processed; 'vless://x'
\* and 'vmess://y' were kept, 'foo', 'VMESS://u' and 'vmess:/w' dropped.
C7_Witness ==
    /\ pc = "sleep"
    /\ encoding = "raw"
    /\ found = 5
    /\ all_configs = {EntryX, EntryY}

\* C8: the fetch of the first URL opens the run's events, and the fetch of
\* every later URL comes right after the fetch, the folding and one pause of
\* the URL before it, in that order; the loop is back at its head only with
\* the pause of the last URL taken, whether its fetch returned a body or
\* failed; and nothing but the folding follows a fetch, nothing but the
\* pause a folding.
C8_FetchFoldPauseFetch ==
    /\ \A k \in DOMAIN log :
         log[k][1] = "fetch" =>
             LET n == log[k][2]
             IN  IF n = 1 THEN k = 1
                 ELSE /\ k >= 4
                      /\ log[k - 3] = <<"fetch", n - 1>>
                      /\ log[k - 2] = <<"fold", n - 1>>
                      /\ log[k - 1] = <<"pause", n - 1>>
    /\ \A k \in 1..(Len(log) - 1) :
         /\ log[k][1] = "fetch" => log[k + 1] = <<"fold", log[k][2]>>
         /\ log[k][1] = "fold" => log[k + 1] = <<"pause", log[k][2]>>
    /\ (pc = "loop" /\ i >= 1) => log[Len(log)] = <<"pause", i>>

\* C8's case: the first fetch timed out, the second brought entries, and the
\* third fetch has begun.
C8_Witness ==
    /\ <<"fetch", 3>> \in Events
    /\ net[urls[1]].kind = "timeout"
    /\ net[urls[2]].kind = "body"
    /\ all_configs # {}

\* C9 as stated: a body that is empty once stripped is classified as raw,
\* and yields no entry.
C9_EmptyBodyIsRaw ==
    (pc = "sleep" /\ content # <<>> /\ Strip(content) = <<>>) =>
        (encoding = "raw" /\ found = 0)

\* C9 as amended: a non-empty body that is empty once stripped is classified
\* as base64 (the empty string decodes and re-encodes to itself) and yields
\* no entry; an empty body is not classified at all and yields no entry.
C9_EmptyBodyIsBase64 ==
    /\ (pc = "sleep" /\ content # <<>> /\ Strip(content) = <<>>) =>
         (encoding = "base64" /\ found = 0)
    /\ (pc = "sleep" /\ content = <<>>) => (encoding = "none" /\ found = 0)

\* C9's case: the body ' \n' was processed after entries had been gathered.
C9_Witness ==
    /\ pc = "sleep"
    /\ content = <<32, 10>>
    /\ encoding = "base64"
    /\ found = 0
    /\ i = 2
    /\ all_configs # {}

\* C10: process_subscription_file always returns to main: with subs.txt
\* missing it fetches nothing and returns the empty set; an exception while
\* reading the file or fetching a URL ends the loop there, the set gathered
\* so far is returned, and main writes it if it is not empty and exits with
\* failure if it is.
C10_ExceptionsEndTheLoop ==
    /\ [](subFile.kind = "missing" => (log = <<>> /\ all_configs = {}))
    /\ [](raised = "exception" => pc \in {"returned", "done"})
    /\ [](\A k \in DOMAIN log :
            (log[k][1] = "fetch" /\ net[urls[log[k][2]]].kind = "error") =>
                (k = Len(log) /\ pc \in {"returned", "done"}))
    /\ []((pc = "done" /\ raised = "exception") =>
            \/ all_configs = {} /\ status = "failure" /\ wrote = "none"
            \/ all_configs # {} /\ status = "success" /\ wrote # "none")
    /\ [][(raised' = "exception" /\ run' = run) =>
            all_configs' = all_configs]_vars

\* C10's case: the second fetch raised, and main wrote what the first URL
\* had brought.
C10_Witness ==
    /\ pc = "done"
    /\ raised = "exception"
    /\ i = 2
    /\ i < Len(urls)
    /\ all_configs # {}
    /\ wrote = "ok"
    /\ status = "success"
    /\ FileHolds(outFile, all_configs)

====
